---- MODULE Spec2Model ----
(***************************************************************************)
(* Model of the supl toolkit: the heterogeneous-container algorithms of    *)
(* tuple_algo.hpp, the lazy sequence adapters of iterators.hpp and the     *)
(* universal stringifier supl::to_string.                                  *)
(*                                                                         *)
(* A value is a record [k, n, t]: k is the kind of its C++ type, n its     *)
(* scalar payload and t its sub-values (the elements of a tuple, pair,     *)
(* vector or the characters of a string).  A std::tuple OBJECT handled by  *)
(* the algorithms is the TLA+ sequence of its elements; TupleVal(s) is     *)
(* that same tuple when it is stored as an element of another container.   *)
(***************************************************************************)
EXTENDS Integers, Sequences, FiniteSets, TLC

VARIABLES
  tup,      \* the caller's tuple, passed by const reference
  call,     \* the latest call of a tuple algorithm and its arguments
  inner,    \* the call whose returned tuple was the argument of `call`, if any
  res,      \* what `call` returned, and the invocations of its callable
  sq,       \* a supl::sequence object
  sit,      \* the sequence_iterator of the loop traversing sq
  spc,      \* position of that loop
  syield,   \* the values the loop body has read through operator*
  gs,       \* a supl::generative_sequence object
  git,      \* the generative_iterator of the loop traversing gs
  gpc,      \* position of that loop
  gyield,   \* the values the loop body has read through operator*
  produced, \* the values the producer has returned, one per invocation
  sval,     \* the value handed to supl::to_string
  stext,    \* what supl::to_string returned for it
  tlist,    \* a type list
  meta,     \* the metafunction instantiated on tlist and its arguments
  mres,     \* what that instantiation names
  fam,      \* which adapter the two iterators ia and ib belong to
  ia,       \* an iterator constructed live
  ib,       \* a second iterator: an end marker, later a copy of ia
  ext,      \* the state a producer keeps outside of the callable
  solo,     \* ia and ext as they are in the run that never advances ib
  thrown,   \* an exception has left an operation on ia or ib
  got,      \* the value last read through operator*
  r1,       \* a range of elements
  r2,       \* a second range
  acall,    \* the latest call of an algorithm on the ranges
  ares      \* what it did

tvars == <<tup, call, inner, res>>

qvars == <<sq, sit, spc, syield>>

gvars == <<gs, git, gpc, gyield, produced>>

rvars == <<sval, stext>>

lvars == <<tlist, meta, mres>>

pvars == <<fam, ia, ib, ext, solo, thrown, got>>

kvars == <<r1, r2, acall, ares>>

vars == <<tup, call, inner, res, sq, sit, spc, syield,
          gs, git, gpc, gyield, produced, sval, stext, tlist, meta, mres,
          fam, ia, ib, ext, solo, thrown, got, r1, r2, acall, ares>>

---------------------------------------------------------------------------
(* Bounds *)

\* longest tuple drawn as an input of the tuple algorithms
MaxLen == 2

\* largest begin / end value of a stepped sequence
MaxVal == 5

\* width in bits of the unsigned value type of a stepped sequence, a
\* stand-in for the 32 bits of unsigned int
ValBits == 3

\* largest iteration count of a generator sequence
MaxCount == 3

\* longest vector handed to to_string
MaxItems == 4

\* largest arity of a tuple handed to to_string
MaxArity == 2

\* longest index_sequence handed to tuple_reorder
MaxIdxs == 3

\* largest number of values handed to one tuple_insert
MaxPack == 2

\* longest type list
MaxTypes == 3

\* largest number of increments of one of the iterators ia and ib
MaxAdvance == 3

\* longest range handed to the algorithms
MaxRange == 3

\* stand-in for 2^64, the modulus of std::size_t arithmetic
SizeModulus == 65536

---------------------------------------------------------------------------
(* Values *)

IntVal(n) == [k |-> "int", n |-> n, t |-> <<>>]

BoolVal(b) == [k |-> "bool", n |-> IF b THEN 1 ELSE 0, t |-> <<>>]

TupleVal(s) == [k |-> "tup", n |-> 0, t |-> s]

PairVal(a, b) == [k |-> "pair", n |-> 0, t |-> <<a, b>>]

\* std::vector<T>
VecVal(s) == [k |-> "vec", n |-> 0, t |-> s]

\* a character, n its code
CharVal(c) == [k |-> "char", n |-> c, t |-> <<>>]

\* std::string, t its characters
StrVal(s) == [k |-> "str", n |-> 0, t |-> s]

\* an object of a class type with no operator<<, no begin()/end()
Opaque == [k |-> "struct", n |-> 0, t |-> <<>>]

\* element values the input tuples are built from
Elem == {IntVal(0), TupleVal(<<IntVal(0), IntVal(1)>>), PairVal(IntVal(1), BoolVal(TRUE))}

RECURSIVE SeqsUpTo(_, _)
SeqsUpTo(S, n) ==
  IF n = 0 THEN {<<>>}
  ELSE LET shorter == SeqsUpTo(S, n - 1)
       IN  shorter \cup {Append(s, e) : s \in {x \in shorter : Len(x) = n - 1}, e \in S}

---------------------------------------------------------------------------
(* Results of a call *)

NoElem == IntVal(0)

RTuple(s) ==
  [kind |-> "tuple", a |-> s, b |-> <<>>, n |-> 0, f |-> FALSE,
   calls |-> <<>>]

RPair(x, y) ==
  [kind |-> "pair", a |-> x, b |-> y, n |-> 0, f |-> FALSE,
   calls |-> <<>>]

RBool(v) ==
  [kind |-> "bool", a |-> <<>>, b |-> <<>>, n |-> 0, f |-> v,
   calls |-> <<>>]

RSize(v) ==
  [kind |-> "size", a |-> <<>>, b |-> <<>>, n |-> v, f |-> FALSE,
   calls |-> <<>>]

\* the call is ill-formed: the translation unit is rejected by the compiler
Diagnostic ==
  [kind |-> "diag", a |-> <<>>, b |-> <<>>, n |-> 0, f |-> FALSE,
   calls |-> <<>>]

NoResult ==
  [kind |-> "none", a |-> <<>>, b |-> <<>>, n |-> 0, f |-> FALSE,
   calls |-> <<>>]

\* a function returning void
RVoid ==
  [kind |-> "void", a |-> <<>>, b |-> <<>>, n |-> 0, f |-> FALSE,
   calls |-> <<>>]

\* the result r of a call that invoked its callable on the elements of
\* indices c[1], c[2], ... in that order
WithCalls(r, c) == [r EXCEPT !.calls = c]

---------------------------------------------------------------------------
(* Standard-library pieces the algorithms are written with *)

\* std::size_t subtraction
size_sub(x, y) == (x - y + SizeModulus) % SizeModulus

\* std::make_index_sequence<N>: the indices 0 .. N-1
make_index_sequence(N) == [i \in 1..N |-> i - 1]

\* std::get<I>(tup), 0-based
get(I, t) == t[I + 1]

\* std::tuple {args...}: class template argument deduction.  A single
\* argument that is itself a tuple selects the copy deduction candidate, a
\* single pair the tuple(pair<T1, T2>) guide; everything else gives
\* tuple<decay_t<Args>...>.
std_tuple(args) ==
  IF Len(args) = 1 /\ args[1].k \in {"tup", "pair"} THEN args[1].t ELSE args

\* std::get<Inds + off>(tup)... is well-formed iff every index is in range
InRange(N, off, t) == N + off <= Len(t)

\* std::get<Inds + off>(tup)...
Gets(Inds, off, t) == [i \in 1..Len(Inds) |-> get(Inds[i] + off, t)]

---------------------------------------------------------------------------
(* Predicates: a stateless callable returning bool for every element type *)

Pred(P, neg) == [set |-> P, neg |-> neg]

\* pred(e)
invoke(pred, e) == (e \in pred.set) # pred.neg

\* std::not_fn(pred)
not_fn(pred) == [pred EXCEPT !.neg = ~@]

Preds == {Pred(P, neg) : P \in SUBSET Elem, neg \in BOOLEAN}

\* Callables handed to tuple_transform and for_each_in_tuple: generic
\* lambdas returning their argument, std::tuple {x, x}, or 0
Funcs == {"identity", "wrap", "zero"}

\* func(e)
apply(func, e) ==
  CASE func = "identity" -> e
    [] func = "wrap" -> TupleVal(<<e, e>>)
    [] func = "zero" -> IntVal(0)

---------------------------------------------------------------------------
(* tuple_algo.hpp *)

\* the value f of a fold and the operands it evaluated, as 0-based positions
Folded(f, calls) == [f |-> f, calls |-> calls]

\* a fold over | : every operand is evaluated
RECURSIVE fold_or_eager(_, _, _)
fold_or_eager(pred, t, i) ==
  IF i > Len(t) THEN Folded(FALSE, <<>>)
  ELSE LET rest == fold_or_eager(pred, t, i + 1)
       IN  Folded(invoke(pred, t[i]) \/ rest.f, <<i - 1>> \o rest.calls)

\* (pred(std::get<Inds>(tup)) || ...): left to right, the right operand of
\* || not evaluated when the left one is true, false for no operand
RECURSIVE fold_or(_, _, _)
fold_or(pred, t, i) ==
  IF i > Len(t) THEN Folded(FALSE, <<>>)
  ELSE IF invoke(pred, t[i]) THEN Folded(TRUE, <<i - 1>>)
       ELSE LET rest == fold_or(pred, t, i + 1)
            IN  Folded(rest.f, <<i - 1>> \o rest.calls)

\* (pred(std::get<Inds>(tup)) && ...): left to right, the right operand of
\* && not evaluated when the left one is false, true for no operand
RECURSIVE fold_and(_, _, _)
fold_and(pred, t, i) ==
  IF i > Len(t) THEN Folded(TRUE, <<>>)
  ELSE IF ~ invoke(pred, t[i]) THEN Folded(FALSE, <<i - 1>>)
       ELSE LET rest == fold_and(pred, t, i + 1)
            IN  Folded(rest.f, <<i - 1>> \o rest.calls)

\* (static_cast<std::size_t>(pred(std::get<Inds>(tup))) + ...), one operand
\* at least
RECURSIVE fold_plus(_, _, _)
fold_plus(pred, t, i) ==
  LET head == IF invoke(pred, t[i]) THEN 1 ELSE 0
  IN  IF i = Len(t) THEN head
      ELSE (head + fold_plus(pred, t, i + 1)) % SizeModulus

tuple_any_of_impl(t, pred, Inds) == fold_or(pred, Gets(Inds, 0, t), 1)

tuple_any_of(t, pred) ==
  LET r == tuple_any_of_impl(t, pred, make_index_sequence(Len(t)))
  IN  WithCalls(RBool(r.f), r.calls)

tuple_all_of_impl(t, pred, Inds) == fold_and(pred, Gets(Inds, 0, t), 1)

tuple_all_of(t, pred) ==
  LET r == tuple_all_of_impl(t, pred, make_index_sequence(Len(t)))
  IN  WithCalls(RBool(r.f), r.calls)

\* !tuple_any_of(tup, pred)
tuple_none_of(t, pred) ==
  LET r == tuple_any_of(t, pred)
  IN  WithCalls(RBool(~ r.f), r.calls)

\* (func(std::get<Inds>(tup)), ...): the operands of the comma operator are
\* evaluated left to right
for_each_in_tuple_impl(t, func, Inds) == Inds

\* for_each_in_tuple(tup, func): returns void
for_each_in_tuple(t, func) ==
  WithCalls(RVoid, for_each_in_tuple_impl(t, func, make_index_sequence(Len(t))))

\* std::tuple {func(std::get<Inds>(tup))...}: the initializers of a braced
\* list are evaluated left to right
tuple_transform_impl(t, func, Inds) ==
  WithCalls(RTuple(std_tuple([i \in 1..Len(Inds) |->
                                apply(func, get(Inds[i], t))])),
            Inds)

tuple_transform(t, func) ==
  tuple_transform_impl(t, func, make_index_sequence(Len(t)))

tuple_push_back_impl(t, data, Inds) ==
  std_tuple(Gets(Inds, 0, t) \o <<data>>)

tuple_push_back(t, data) ==
  RTuple(tuple_push_back_impl(t, data, make_index_sequence(Len(t))))

tuple_pop_back_impl(t, Inds) == std_tuple(Gets(Inds, 0, t))

tuple_pop_back(t) ==
  LET N == size_sub(Len(t), 1)
  IN  IF ~ InRange(N, 0, t) THEN Diagnostic
      ELSE RTuple(tuple_pop_back_impl(t, make_index_sequence(N)))

tuple_push_front_impl(t, data, Inds) ==
  std_tuple(<<data>> \o Gets(Inds, 0, t))

tuple_push_front(t, data) ==
  RTuple(tuple_push_front_impl(t, data, make_index_sequence(Len(t))))

tuple_pop_front_impl(t, Inds) == std_tuple(Gets(Inds, 1, t))

tuple_pop_front(t) ==
  LET N == size_sub(Len(t), 1)
  IN  IF ~ InRange(N, 1, t) THEN Diagnostic
      ELSE RTuple(tuple_pop_front_impl(t, make_index_sequence(N)))

\* std::tuple {std::get<pre_idxs>(tup)..., data..., std::get<post_idxs + idx>(tup)...}
tuple_insert_impl(t, pre_idxs, post_idxs, idx, data) ==
  std_tuple(Gets(pre_idxs, 0, t) \o data \o Gets(post_idxs, idx, t))

\* tuple_insert(tup, index_constant<Idx>, data...)
tuple_insert(t, Idx, data) ==
  IF ~ (Idx <= Len(t)) THEN Diagnostic
  ELSE RTuple(tuple_insert_impl(t, make_index_sequence(Idx),
                                make_index_sequence(size_sub(Len(t), Idx)),
                                Idx, data))

\* tuple_reorder(tup, std::index_sequence<Idxs...>)
tuple_reorder(t, Idxs) ==
  IF ~ (\A j \in 1..Len(Idxs) : Idxs[j] < Len(t)) THEN Diagnostic
  ELSE RTuple(std_tuple(Gets(Idxs, 0, t)))

tuple_split_impl(t, Pre_Idxs, Post_Idxs, Idx) ==
  RPair(std_tuple(Gets(Pre_Idxs, 0, t)), std_tuple(Gets(Post_Idxs, Idx, t)))

\* tuple_split that also accepts the length as index
tuple_split_inclusive(t, Idx) ==
  IF ~ (Idx <= Len(t)) THEN Diagnostic
  ELSE tuple_split_impl(t, make_index_sequence(Idx),
                        make_index_sequence(size_sub(Len(t), Idx)), Idx)

tuple_split(t, Idx) ==
  IF ~ (Idx < Len(t)) THEN Diagnostic
  ELSE tuple_split_impl(t, make_index_sequence(Idx),
                        make_index_sequence(size_sub(Len(t), Idx)), Idx)

subtuple_impl(t, Inds, begin) == std_tuple(Gets(Inds, begin, t))

\* the two static_asserts of subtuple, both with "Begin out of bounds"
subtuple_asserts(t, begin, end) == begin < Len(t) /\ end <= Len(t)

\* std::make_index_sequence<end - begin> is instantiated once the
\* static_asserts have passed
subtuple(t, begin, end) ==
  LET N == size_sub(end, begin)
  IN  IF ~ subtuple_asserts(t, begin, end) THEN Diagnostic
      ELSE IF ~ InRange(N, begin, t) THEN Diagnostic
      ELSE RTuple(subtuple_impl(t, make_index_sequence(N), begin))

\* subtuple(tup, index_pair<begin, end>)
subtuple_index_pair(t, ip) == subtuple(t, ip[1], ip[2])

\* subtuple<Tuple, begin, end>(tup)
subtuple_explicit(t, begin, end) == subtuple(t, begin, end)

\* the operands of + are evaluated in an unspecified order: the order of
\* the invocations is not recorded
tuple_count_if_impl(t, pred, Inds) == fold_plus(pred, Gets(Inds, 0, t), 1)

\* a fold over + of an empty pack is ill-formed
tuple_count_if(t, pred) ==
  IF Len(t) = 0 THEN Diagnostic
  ELSE RSize(tuple_count_if_impl(t, pred, make_index_sequence(Len(t))))

---------------------------------------------------------------------------
(* iterators.hpp: sequence_iterator and sequence *)

\* the step functions a sequence is constructed with; "increment" is the
\* default argument ::supl::increment<value_type>
Steps == {"increment", "plus2"}

\* the number of values of the value type: ++ on its largest value gives 0
ValModulus == 2 ^ ValBits

\* m_inc(m_val) on a value type that never wraps around
step_unbounded(m_inc, v) ==
  CASE m_inc = "increment" -> v + 1
    [] m_inc = "plus2" -> v + 2

\* m_inc(m_val)
step(m_inc, v) ==
  CASE m_inc = "increment" -> (v + 1) % ValModulus
    [] m_inc = "plus2" -> (v + 2) % ValModulus

\* sequence_iterator(init, func)
sequence_iterator(init, func) == [m_val |-> init, m_inc |-> func]

\* sequence(begin, end, func)
sequence(begin, end, func) ==
  [m_begin |-> begin, m_end |-> end, m_inc |-> func]

\* sequence_iterator::operator++()
seq_preinc(it) == [it EXCEPT !.m_val = step(it.m_inc, it.m_val)]

\* sequence_iterator::operator++(int): tmp {*this}; operator++();
\* return tmp
seq_postinc(it) == [tmp |-> it, it |-> seq_preinc(it)]

\* sequence_iterator::operator*()
seq_deref(it) == it.m_val

\* operator== that holds once the value has reached or passed the other
seq_eq_reached(lhs, rhs) == lhs.m_val >= rhs.m_val

\* sequence_iterator::operator==
seq_eq(lhs, rhs) == lhs.m_val = rhs.m_val

\* sequence_iterator::operator!=
seq_ne(lhs, rhs) == lhs.m_val # rhs.m_val

\* sequence::begin()
sequence_begin(s) == sequence_iterator(s.m_begin, s.m_inc)

\* sequence::end() taking the end value into the range
sequence_end_inclusive(s) == sequence_iterator(s.m_end + 1, s.m_inc)

\* sequence::end()
sequence_end(s) == sequence_iterator(s.m_end, s.m_inc)

\* sequence::empty()
sequence_empty(s) == seq_eq(sequence_begin(s), sequence_end(s))

NoSeqIter == sequence_iterator(0, "increment")

SequenceIdle ==
  /\ sq = sequence(0, 0, "increment")
  /\ sit = NoSeqIter
  /\ spc = "idle"
  /\ syield = <<>>

---------------------------------------------------------------------------
(* iterators.hpp: generative_iterator and generative_sequence *)

\* the values a producer may return
GenVals == {10, 20, 30}

\* a std::function<value_type()>: empty, or holding a producer.  The state
\* st of a producer is "owned", kept in the callable and copied with it, or
\* "shared", kept outside of it as by a function with static state or a
\* lambda capturing by reference; "any" is a producer whose values are
\* drawn by the caller of the model
Producer(kind, st) == [kind |-> kind, st |-> st]

EmptyFunction == Producer("empty", 0)

AnyProducer == Producer("any", 0)

\* m_gen() on a producer that counts: the value it returns and the state
\* it leaves in the callable and outside of it
invoke_gen(m_gen, outside) ==
  CASE m_gen.kind = "owned" ->
         [v |-> m_gen.st, m_gen |-> [m_gen EXCEPT !.st = @ + 1],
          ext |-> outside]
    [] m_gen.kind = "shared" ->
         [v |-> outside, m_gen |-> m_gen, ext |-> outside + 1]
    [] OTHER -> [v |-> 0, m_gen |-> m_gen, ext |-> outside]

\* generative_iterator(func): stores the producer and calls it once
generative_iterator_func(log, v) ==
  [it  |-> [m_gen |-> AnyProducer, m_val |-> v, m_count |-> 0,
            m_sentinel |-> 0],
   log |-> Append(log, v)]

\* generative_iterator(sentinel): no producer, value-initialised value
generative_iterator_sentinel(sentinel) ==
  [m_gen |-> EmptyFunction, m_val |-> 0, m_count |-> 0,
   m_sentinel |-> sentinel % SizeModulus]

\* generative_iterator(const generative_iterator&, sentinel): nothing is
\* taken from the iterator passed
generative_iterator_from(src, sentinel) ==
  [m_gen |-> EmptyFunction, m_val |-> 0, m_count |-> 0,
   m_sentinel |-> sentinel % SizeModulus]

\* generative_sequence(max, func)
generative_sequence(max) ==
  [m_gen |-> AnyProducer, m_max |-> max % SizeModulus]

\* operator++ that counts the step without calling the producer
gen_preinc_stale(it, log, v) ==
  [it  |-> [it EXCEPT !.m_count = (@ + 1) % SizeModulus],
   log |-> log, thrown |-> FALSE]

\* generative_iterator::operator++(): m_val = m_gen(); ++m_count, v the
\* value m_gen() returns.  Calling an empty std::function throws
\* std::bad_function_call, which leaves operator++ before it has changed
\* anything
gen_preinc(it, log, v) ==
  IF it.m_gen.kind = "empty"
  THEN [it |-> it, log |-> log, thrown |-> TRUE]
  ELSE [it  |-> [it EXCEPT !.m_val = v, !.m_count = (@ + 1) % SizeModulus],
        log |-> Append(log, v), thrown |-> FALSE]

\* generative_iterator::operator++(int): tmp {*this}; operator++();
\* return tmp
gen_postinc(it, log, v) ==
  LET r == gen_preinc(it, log, v)
  IN  [tmp |-> it, it |-> r.it, log |-> r.log, thrown |-> r.thrown]

\* generative_iterator::operator*()
gen_deref(it) == it.m_val

\* operator== comparing the stored values and the counters
gen_eq_memberwise(lhs, rhs) ==
  lhs.m_val = rhs.m_val /\ lhs.m_count = rhs.m_count

\* generative_iterator::operator==
gen_eq(lhs, rhs) == lhs.m_count = rhs.m_sentinel

\* operator!= comparing the stored values, as sequence_iterator does
gen_ne_by_value(lhs, rhs) == lhs.m_val # rhs.m_val

\* generative_iterator::operator!=
gen_ne(lhs, rhs) == lhs.m_count # rhs.m_sentinel

\* generative_iterator::operator<
gen_lt(lhs, rhs) == lhs.m_count < rhs.m_sentinel

\* generative_sequence::begin()
generative_begin(s, log, v) == generative_iterator_func(log, v)

\* generative_sequence::end()
generative_end(s) == generative_iterator_sentinel(s.m_max)

NoGenIter == generative_iterator_sentinel(0)

GenerativeIdle ==
  /\ gs = generative_sequence(0)
  /\ git = NoGenIter
  /\ gpc = "idle"
  /\ gyield = <<>>
  /\ produced = <<>>

---------------------------------------------------------------------------
(* metaprogramming.hpp: the capability predicates to_string branches on *)

is_printable(v) == v.k \in {"int", "bool", "char", "str"}

is_tuple(v) == v.k = "tup"

is_pair(v) == v.k = "pair"

is_iterable(v) == v.k \in {"vec", "str"}

---------------------------------------------------------------------------
(* std::stringstream: text is a sequence of characters, pos the 0-based   *)
(* put position, fail the failbit                                          *)

stringstream == [buf |-> <<>>, pos |-> 0, fail |-> FALSE]

\* out << s: overwrites from the put position and extends the buffer
put(out, s) ==
  IF out.fail THEN out
  ELSE [buf  |-> SubSeq(out.buf, 1, out.pos) \o s
                 \o SubSeq(out.buf, out.pos + Len(s) + 1, Len(out.buf)),
        pos  |-> out.pos + Len(s),
        fail |-> FALSE]

\* out.seekp(off, std::ios_base::end)
seekp_end(out, off) ==
  LET p == Len(out.buf) + off
  IN  IF out.fail \/ p < 0 \/ p > Len(out.buf)
      THEN [out EXCEPT !.fail = TRUE]
      ELSE [out EXCEPT !.pos = p]

\* out.str()
str(out) == out.buf

Digit(d) == <<"0", "1", "2", "3", "4", "5", "6", "7", "8", "9">>[d + 1]

RECURSIVE Decimal(_)
Decimal(n) ==
  IF n < 0 THEN <<"-">> \o Decimal(0 - n)
  ELSE IF n < 10 THEN <<Digit(n)>>
  ELSE Decimal(n \div 10) \o <<Digit(n % 10)>>

CharOf(c) ==
  CASE c = 97 -> "a"
    [] c = 98 -> "b"

\* out << std::boolalpha << value, for a value with an operator<<
native(v) ==
  CASE v.k = "int" -> Decimal(v.n)
    [] v.k = "bool" -> IF v.n = 1 THEN <<"t", "r", "u", "e">>
                       ELSE <<"f", "a", "l", "s", "e">>
    [] v.k = "char" -> <<CharOf(v.n)>>
    [] v.k = "str" -> [i \in 1..Len(v.t) |-> CharOf(v.t[i].n)]

---------------------------------------------------------------------------
(* supl::to_string *)

RText(text, branch) == [ok |-> TRUE, text |-> text, branch |-> branch]

\* the static_assert fires, or a nested instantiation is ill-formed
Unsupported == [ok |-> FALSE, text |-> <<>>, branch |-> "none"]

NoText == [ok |-> FALSE, text |-> <<>>, branch |-> "idle"]

RECURSIVE to_string(_)

\* every element has a well-formed to_string instantiation
all_supported(elems) == \A i \in 1..Len(elems) : to_string(elems[i]).ok

\* the visitor [&out](const auto& i) { out << supl::to_string(i) << ", "; }
\* applied to the elements in order
RECURSIVE for_each_put(_, _, _)
for_each_put(out, elems, i) ==
  IF i > Len(elems) THEN out
  ELSE for_each_put(put(put(out, to_string(elems[i]).text), <<",", " ">>),
                    elems, i + 1)

render_printable(v) == RText(str(put(stringstream, native(v))), "printable")

render_tuple(v) ==
  IF ~ all_supported(v.t) THEN Unsupported
  ELSE LET opened == put(stringstream, <<"(", " ">>)
           listed == for_each_put(opened, v.t, 1)
           closed == put(seekp_end(listed, 0 - 2), <<" ", ")">>)
       IN  RText(str(closed), "tuple")

render_pair(v) ==
  IF ~ all_supported(v.t) THEN Unsupported
  ELSE LET o1 == put(stringstream, <<"(", " ">>)
           o2 == put(o1, to_string(v.t[1]).text)
           o3 == put(o2, <<",", " ">>)
           o4 == put(o3, to_string(v.t[2]).text)
           o5 == put(o4, <<" ", ")">>)
       IN  RText(str(o5), "pair")

\* the iterable branch without its value.empty() test
render_iterable_unchecked(v) ==
  IF ~ all_supported(v.t) THEN Unsupported
  ELSE LET opened == put(stringstream, <<"[", " ">>)
           listed == for_each_put(opened, v.t, 1)
           closed == put(seekp_end(listed, 0 - 2), <<" ", "]">>)
       IN  RText(str(closed), "iterable")

render_iterable(v) ==
  IF ~ all_supported(v.t) THEN Unsupported
  ELSE IF Len(v.t) = 0 THEN RText(<<"[", " ", "]">>, "iterable")
  ELSE LET opened == put(stringstream, <<"[", " ">>)
           listed == for_each_put(opened, v.t, 1)
           closed == put(seekp_end(listed, 0 - 2), <<" ", "]">>)
       IN  RText(str(closed), "iterable")

\* the if constexpr chain with the iterable test moved to the front
dispatch_iterable_first(v) ==
  IF is_iterable(v) THEN "iterable"
  ELSE IF is_printable(v) THEN "printable"
  ELSE IF is_tuple(v) THEN "tuple"
  ELSE IF is_pair(v) THEN "pair"
  ELSE "none"

\* the if constexpr chain
dispatch(v) ==
  IF is_printable(v) THEN "printable"
  ELSE IF is_tuple(v) THEN "tuple"
  ELSE IF is_pair(v) THEN "pair"
  ELSE IF is_iterable(v) THEN "iterable"
  ELSE "none"

to_string(value) ==
  IF ~ (is_printable(value) \/ is_tuple(value) \/ is_pair(value)
        \/ is_iterable(value))
  THEN Unsupported
  ELSE CASE dispatch(value) = "printable" -> render_printable(value)
         [] dispatch(value) = "tuple" -> render_tuple(value)
         [] dispatch(value) = "pair" -> render_pair(value)
         [] dispatch(value) = "iterable" -> render_iterable(value)
         [] OTHER -> RText(str(stringstream), "none")

RenderIdle ==
  /\ sval = IntVal(0)
  /\ stext = NoText

---------------------------------------------------------------------------
(* type_list.hpp: metafunctions over a list of types.  A type is the       *)
(* spelling of its name, a list LIST<Pack...> the sequence of its types.   *)

\* the types the lists are built from; cv-qualified types are types of
\* their own
Types == {"int", "const int", "char"}

\* what an instantiation names: a type, a list, a bool, a size, or nothing
\* because the translation unit is rejected by the compiler
MType(T) == [kind |-> "type", type |-> T, list |-> <<>>, f |-> FALSE, n |-> 0]

MList(L) == [kind |-> "list", type |-> "", list |-> L, f |-> FALSE, n |-> 0]

MBool(v) == [kind |-> "bool", type |-> "", list |-> <<>>, f |-> v, n |-> 0]

MSize(v) == [kind |-> "size", type |-> "", list |-> <<>>, f |-> FALSE, n |-> v]

MDiagnostic ==
  [kind |-> "diag", type |-> "", list |-> <<>>, f |-> FALSE, n |-> 0]

NoMeta == [kind |-> "none", type |-> "", list |-> <<>>, f |-> FALSE, n |-> 0]

\* std::is_same_v<A, B>
is_same(A, B) == A = B

\* is_type_in_pack<T, Pack...>: false for the empty pack, else the fold of
\* is_same over ||
is_type_in_pack(T, Pack) ==
  IF Len(Pack) = 0 THEN FALSE
  ELSE \E i \in 1..Len(Pack) : is_same(T, Pack[i])

\* contains_type<T, LIST<Pack...>>
contains_type(T, L) == is_type_in_pack(T, L)

\* type_list_size<LIST<Pack...>>
type_list_size(L) == Len(L) % SizeModulus

\* type_at_index with a primary template naming void and no bounds check
RECURSIVE type_at_index_unchecked(_, _, _)
type_at_index_unchecked(Idx, L, Current) ==
  IF Len(L) = 0 THEN MType("void")
  ELSE IF Idx = Current THEN MType(Head(L))
       ELSE type_at_index_unchecked(Idx, Tail(L), (Current + 1) % SizeModulus)

\* type_at_index<Idx, LIST, Current>: the primary template is declared
\* only, so a list with no type left names an incomplete type; the
\* specialisation for LIST<T, Pack...> asserts Idx - Current <= sizeof...(Pack)
\* and derives from type_identity<T> or from the instantiation on Pack
RECURSIVE type_at_index(_, _, _)
type_at_index(Idx, L, Current) ==
  IF Len(L) = 0 THEN MDiagnostic
  ELSE IF ~ (size_sub(Idx, Current) <= Len(Tail(L))) THEN MDiagnostic
       ELSE IF Idx = Current THEN MType(Head(L))
            ELSE type_at_index(Idx, Tail(L), (Current + 1) % SizeModulus)

\* type_at_index_t<Idx, LIST, Current>: the alias does not pass Current on
type_at_index_t(Idx, L, Current) == type_at_index(Idx, L, 0)

\* push_back<LIST<Pack...>, T>
push_back(L, T) == L \o <<T>>

\* push_front that appends
push_front_appending(L, T) == L \o <<T>>

\* push_front<LIST<Pack...>, T>
push_front(L, T) == <<T>> \o L

MetaCall(op, idx, type) == [op |-> op, idx |-> idx, type |-> type]

NoMetaCall == MetaCall("none", 0, "")

TypeListIdle ==
  /\ tlist = <<>>
  /\ meta = NoMetaCall
  /\ mres = NoMeta

---------------------------------------------------------------------------
(* Two iterators of one adapter, a live one and an end marker or a copy *)

AdapterIdle ==
  /\ fam = "idle"
  /\ ia = NoGenIter
  /\ ib = NoGenIter
  /\ ext = 0
  /\ solo = [it |-> NoGenIter, ext |-> 0]
  /\ thrown = FALSE
  /\ got = 0

---------------------------------------------------------------------------
(* algorithm.hpp and last / clast of iterators.hpp.  A range is the        *)
(* sequence of its elements, an iterator into it a position: 0 for         *)
(* begin() up to the length for end().                                     *)

\* the elements of the ranges
RangeVals == {1, 2}

\* the iterator categories of the containers handed to last
Categories == {"forward", "bidirectional"}

\* is_bidirectional_v<decltype(end)>
is_bidirectional(cat) == cat = "bidirectional"

\* one call func(*p, *q): the positions dereferenced and the arguments
Invocation(p, q, x, y) == [p |-> p, q |-> q, x |-> x, y |-> y]

\* what a call of an algorithm did: the calls of func in order, whether it
\* ran into undefined behaviour, the position it returned and the number
\* of times it stepped an iterator to get there
Did(calls, undefined, pos, steps) ==
  [calls |-> calls, undefined |-> undefined, pos |-> pos, steps |-> steps]

NoAlgoCall == [op |-> "none", n |-> 0, cat |-> "none"]

\* an iterator was stepped past end(): the build may call func on
\* whatever it finds there, or not at all
Undefined ==
  {Did(c, TRUE, 0, 0) :
     c \in {<<>>} \cup {<<Invocation(1, 0, x, y)>> : x, y \in RangeVals}}

\* for ( std::size_t i {0}; i != distance; ++i ) { ++begin; }
RECURSIVE advance(_, _, _)
advance(begin, i, distance) ==
  IF i # distance THEN advance(begin + 1, (i + 1) % SizeModulus, distance)
  ELSE begin

\* last that steps back from end() whatever the container holds
last_unguarded(c, cat) == Did(<<>>, FALSE, Len(c) - 1, 1)

\* last(container)
last(c, cat) ==
  LET begin == 0
      end == Len(c)
      distance == size_sub(end - begin, 1)
  IN  IF begin = end THEN Did(<<>>, FALSE, begin, 0)
      ELSE IF is_bidirectional(cat) THEN Did(<<>>, FALSE, end - 1, 1)
      ELSE Did(<<>>, FALSE, advance(begin, 0, distance), distance)

\* clast(container): last(container) cast to the const iterator
clast(c, cat) == last(c, cat)

\* for ( ; leader != end; ++leader, ++follower ) func(*leader, *follower);
RECURSIVE adjacent_loop(_, _, _)
adjacent_loop(r, leader, follower) ==
  IF leader # Len(r)
  THEN <<Invocation(leader, follower, r[leader + 1], r[follower + 1])>>
         \o adjacent_loop(r, leader + 1, follower + 1)
  ELSE <<>>

\* for_each_adjacent(begin, end, func): std::next(begin) is undefined when
\* begin is end
for_each_adjacent(r) ==
  IF Len(r) = 0 THEN Undefined
  ELSE {Did(adjacent_loop(r, 1, 0), FALSE, 0, 0)}

\* for ( ; count != n && leader != end; ++count, ++leader, ++follower )
\*   func(*leader, *follower);
RECURSIVE adjacent_n_loop(_, _, _, _, _)
adjacent_n_loop(r, leader, follower, count, n) ==
  IF count # n /\ leader # Len(r)
  THEN <<Invocation(leader, follower, r[leader + 1], r[follower + 1])>>
         \o adjacent_n_loop(r, leader + 1, follower + 1,
                            (count + 1) % SizeModulus, n)
  ELSE <<>>

\* for_each_adjacent_n(begin, end, n, func)
for_each_adjacent_n(r, n) ==
  IF Len(r) = 0 THEN Undefined
  ELSE {Did(adjacent_n_loop(r, 1, 0, 0, n), FALSE, 0, 0)}

\* for ( ; (begin1 != end1 && begin2 != end2); ++begin1, ++begin2 )
\*   func(*begin1, *begin2);
RECURSIVE both_loop(_, _, _, _)
both_loop(ra, rb, begin1, begin2) ==
  IF begin1 # Len(ra) /\ begin2 # Len(rb)
  THEN <<Invocation(begin1, begin2, ra[begin1 + 1], rb[begin2 + 1])>>
         \o both_loop(ra, rb, begin1 + 1, begin2 + 1)
  ELSE <<>>

\* for_each_both(begin1, end1, begin2, end2, func)
for_each_both(ra, rb) == Did(both_loop(ra, rb, 0, 0), FALSE, 0, 0)

\* for ( std::size_t count {0};
\*       (count != n && begin1 != end1 && begin2 != end2);
\*       ++count, ++begin1, ++begin2 ) func(*begin1, *begin2);
RECURSIVE both_n_loop(_, _, _, _, _, _)
both_n_loop(ra, rb, begin1, begin2, count, n) ==
  IF count # n /\ begin1 # Len(ra) /\ begin2 # Len(rb)
  THEN <<Invocation(begin1, begin2, ra[begin1 + 1], rb[begin2 + 1])>>
         \o both_n_loop(ra, rb, begin1 + 1, begin2 + 1,
                        (count + 1) % SizeModulus, n)
  ELSE <<>>

\* for_each_both_n without the count
for_each_both_n_uncounted(ra, rb, n) ==
  Did(both_loop(ra, rb, 0, 0), FALSE, 0, 0)

\* for_each_both_n(begin1, end1, begin2, end2, n, func)
for_each_both_n(ra, rb, n) ==
  Did(both_n_loop(ra, rb, 0, 0, 0, n), FALSE, 0, 0)

AlgorithmIdle ==
  /\ r1 = <<>>
  /\ r2 = <<>>
  /\ acall = NoAlgoCall
  /\ ares = Did(<<>>, FALSE, 0, 0)

---------------------------------------------------------------------------
(* Calls of the tuple algorithms.  An algorithm is called on the caller's  *)
(* tuple or, nested, on the tuple the previous call returned, as in        *)
(* tuple_pop_back(tuple_push_back(tup, v)).                                *)

NoPred == Pred({}, FALSE)

\* idxs, vals and func are the arguments only some algorithms take: an
\* index_sequence, a pack of values, a callable
Call(op, in, data, idx, idx2, pred, ov) ==
  [op |-> op, in |-> in, data |-> data, idx |-> idx, idx2 |-> idx2,
   pred |-> pred, ov |-> ov, idxs |-> <<>>, vals |-> <<>>, func |-> "none"]

NoCall == Call("none", <<>>, NoElem, 0, 0, NoPred, 0)

\* index constants a caller may write, one past the longest tuple included
Indices == 0..(MaxLen + 1)

\* the index_sequence arguments of tuple_reorder
IndexSequences == SeqsUpTo(Indices, MaxIdxs)

\* the packs of values handed to tuple_insert
Packs == SeqsUpTo(Elem, MaxPack)

\* the algorithms whose returned tuple is handed on to an outer call
Composable == {"push_back", "push_front", "pop_back", "pop_front", "subtuple"}

\* a run evaluates one expression: a call on the caller's tuple, possibly
\* wrapped in one outer call that takes the returned tuple
Callable(nested) ==
  IF nested
  THEN /\ res.kind = "tuple"
       /\ call.op \in Composable
       /\ inner.op = "none"
  ELSE call.op = "none"

Input(nested) == IF nested THEN res.a ELSE tup

\* an algorithm that works on the caller's tuple in place
ReturnInPlace(nested, c, r) ==
  /\ call' = c
  /\ res' = r
  /\ inner' = IF nested THEN call ELSE NoCall
  /\ tup' = IF r.kind = "tuple" THEN r.a ELSE tup
  /\ UNCHANGED <<qvars, gvars, rvars, lvars, pvars, kvars>>

\* every algorithm takes const Tuple& and returns by value
Return(nested, c, r) ==
  /\ call' = c
  /\ res' = r
  /\ inner' = IF nested THEN call ELSE NoCall
  /\ UNCHANGED tup
  /\ UNCHANGED <<qvars, gvars, rvars, lvars, pvars, kvars>>

TupleIdle ==
  /\ tup = <<>>
  /\ call = NoCall
  /\ inner = NoCall
  /\ res = NoResult

TupleInit ==
  /\ tup \in SeqsUpTo(Elem, MaxLen)
  /\ call = NoCall
  /\ inner = NoCall
  /\ res = NoResult
  /\ SequenceIdle
  /\ GenerativeIdle
  /\ RenderIdle
  /\ TypeListIdle
  /\ AdapterIdle
  /\ AlgorithmIdle

PushBack ==
  \E nested \in BOOLEAN, data \in Elem :
    /\ Callable(nested)
    /\ Return(nested, Call("push_back", Input(nested), data, 0, 0, NoPred, 0),
              tuple_push_back(Input(nested), data))

PushFront ==
  \E nested \in BOOLEAN, data \in Elem :
    /\ Callable(nested)
    /\ Return(nested, Call("push_front", Input(nested), data, 0, 0, NoPred, 0),
              tuple_push_front(Input(nested), data))

PopBack ==
  \E nested \in BOOLEAN :
    /\ Callable(nested)
    /\ Return(nested, Call("pop_back", Input(nested), NoElem, 0, 0, NoPred, 0),
              tuple_pop_back(Input(nested)))

PopFront ==
  \E nested \in BOOLEAN :
    /\ Callable(nested)
    /\ Return(nested, Call("pop_front", Input(nested), NoElem, 0, 0, NoPred, 0),
              tuple_pop_front(Input(nested)))

Split ==
  \E nested \in BOOLEAN, Idx \in Indices :
    /\ Callable(nested)
    /\ Return(nested, Call("split", Input(nested), NoElem, Idx, 0, NoPred, 0),
              tuple_split(Input(nested), Idx))

Subtuple ==
  \E nested \in BOOLEAN, begin \in Indices, end \in Indices, ov \in 1..3 :
    /\ Callable(nested)
    /\ Return(nested,
              Call("subtuple", Input(nested), NoElem, begin, end, NoPred, ov),
              CASE ov = 1 -> subtuple(Input(nested), begin, end)
                [] ov = 2 -> subtuple_index_pair(Input(nested), <<begin, end>>)
                [] ov = 3 -> subtuple_explicit(Input(nested), begin, end))

AnyOf ==
  \E nested \in BOOLEAN, pred \in Preds :
    /\ Callable(nested)
    /\ Return(nested, Call("any_of", Input(nested), NoElem, 0, 0, pred, 0),
              tuple_any_of(Input(nested), pred))

AllOf ==
  \E nested \in BOOLEAN, pred \in Preds :
    /\ Callable(nested)
    /\ Return(nested, Call("all_of", Input(nested), NoElem, 0, 0, pred, 0),
              tuple_all_of(Input(nested), pred))

NoneOf ==
  \E nested \in BOOLEAN, pred \in Preds :
    /\ Callable(nested)
    /\ Return(nested, Call("none_of", Input(nested), NoElem, 0, 0, pred, 0),
              tuple_none_of(Input(nested), pred))

CountIf ==
  \E nested \in BOOLEAN, pred \in Preds :
    /\ Callable(nested)
    /\ Return(nested, Call("count_if", Input(nested), NoElem, 0, 0, pred, 0),
              tuple_count_if(Input(nested), pred))

\* tuple_transform, for_each_in_tuple, tuple_insert and tuple_reorder are
\* called on the caller's tuple only
ForEach ==
  \E func \in Funcs :
    /\ Callable(FALSE)
    /\ Return(FALSE,
              [Call("for_each", tup, NoElem, 0, 0, NoPred, 0)
                 EXCEPT !.func = func],
              for_each_in_tuple(tup, func))

Transform ==
  \E func \in Funcs :
    /\ Callable(FALSE)
    /\ Return(FALSE,
              [Call("transform", tup, NoElem, 0, 0, NoPred, 0)
                 EXCEPT !.func = func],
              tuple_transform(tup, func))

Insert ==
  \E Idx \in Indices, data \in Packs :
    /\ Callable(FALSE)
    /\ Return(FALSE,
              [Call("insert", tup, NoElem, Idx, 0, NoPred, 0)
                 EXCEPT !.vals = data],
              tuple_insert(tup, Idx, data))

Reorder ==
  \E Idxs \in IndexSequences :
    /\ Callable(FALSE)
    /\ Return(FALSE,
              [Call("reorder", tup, NoElem, 0, 0, NoPred, 0)
                 EXCEPT !.idxs = Idxs],
              tuple_reorder(tup, Idxs))

\* std::get<i>(r) = v on the tuple r a call on the caller's tuple returned:
\* r owns its elements, copies of decayed type
Assign ==
  \E i \in Indices, v \in Elem :
    /\ res.kind = "tuple"
    /\ call.op # "none"
    /\ inner.op = "none"
    /\ i < Len(res.a)
    /\ get(i, res.a) # v
    /\ call' = Call("assign", res.a, v, i, 0, NoPred, 0)
    /\ res' = RTuple([res.a EXCEPT ![i + 1] = v])
    /\ inner' = call
    /\ UNCHANGED tup
    /\ UNCHANGED <<qvars, gvars, rvars, lvars, pvars, kvars>>

TupleNext ==
  \/ ForEach
  \/ Transform
  \/ Insert
  \/ Reorder
  \/ Assign
  \/ PushBack
  \/ PushFront
  \/ PopBack
  \/ PopFront
  \/ Split
  \/ Subtuple
  \/ AnyOf
  \/ AllOf
  \/ NoneOf
  \/ CountIf

TupleSpec == TupleInit /\ [][TupleNext]_vars

---------------------------------------------------------------------------
(* Traversal of a stepped sequence:                                        *)
(*   for (auto it = s.begin(); it != s.end(); ++it) { v = *it; }           *)

SequenceInit ==
  /\ sq \in {sequence(b, e, f) : b \in 0..MaxVal, e \in 0..MaxVal, f \in Steps}
  /\ sit = NoSeqIter
  /\ spc = "start"
  /\ syield = <<>>
  /\ TupleIdle
  /\ GenerativeIdle
  /\ RenderIdle
  /\ TypeListIdle
  /\ AdapterIdle
  /\ AlgorithmIdle

SeqBegin ==
  /\ spc = "start"
  /\ sit' = sequence_begin(sq)
  /\ spc' = "test"
  /\ UNCHANGED <<sq, syield, tvars, gvars, rvars, lvars, pvars, kvars>>

SeqTest ==
  /\ spc = "test"
  /\ spc' = IF seq_ne(sit, sequence_end(sq)) THEN "body" ELSE "done"
  /\ UNCHANGED <<sq, sit, syield, tvars, gvars, rvars, lvars, pvars, kvars>>

SeqDeref ==
  /\ spc = "body"
  /\ syield' = Append(syield, seq_deref(sit))
  /\ spc' = "incr"
  /\ UNCHANGED <<sq, sit, tvars, gvars, rvars, lvars, pvars, kvars>>

\* a loop is followed for as many iterations as the value type has values
SeqIncr ==
  /\ spc = "incr"
  /\ Len(syield) <= ValModulus
  /\ sit' = seq_preinc(sit)
  /\ spc' = "test"
  /\ UNCHANGED <<sq, syield, tvars, gvars, rvars, lvars, pvars, kvars>>

SequenceNext ==
  \/ SeqBegin
  \/ SeqTest
  \/ SeqDeref
  \/ SeqIncr

SequenceSpec == SequenceInit /\ [][SequenceNext]_vars

\* the loop is not suspended: it takes its next step when it has one
SequenceFairSpec == SequenceSpec /\ WF_vars(SequenceNext)

---------------------------------------------------------------------------
(* Traversal of a generator sequence:                                      *)
(*   for (auto it = g.begin(); it != g.end(); ++it) { v = *it; }           *)

GenerativeInit ==
  /\ gs \in {generative_sequence(n) : n \in 0..MaxCount}
  /\ git = NoGenIter
  /\ gpc = "start"
  /\ gyield = <<>>
  /\ produced = <<>>
  /\ TupleIdle
  /\ SequenceIdle
  /\ RenderIdle
  /\ TypeListIdle
  /\ AdapterIdle
  /\ AlgorithmIdle

GenBegin ==
  /\ gpc = "start"
  /\ \E v \in GenVals :
       LET r == generative_begin(gs, produced, v)
       IN  /\ git' = r.it
           /\ produced' = r.log
  /\ gpc' = "test"
  /\ UNCHANGED <<gs, gyield, tvars, qvars, rvars, lvars, pvars, kvars>>

GenTest ==
  /\ gpc = "test"
  /\ gpc' = IF gen_ne(git, generative_end(gs)) THEN "body" ELSE "done"
  /\ UNCHANGED <<gs, git, gyield, produced, tvars, qvars, rvars, lvars, pvars, kvars>>

GenDeref ==
  /\ gpc = "body"
  /\ gyield' = Append(gyield, gen_deref(git))
  /\ gpc' = "incr"
  /\ UNCHANGED <<gs, git, produced, tvars, qvars, rvars, lvars, pvars, kvars>>

\* the count is capped two steps beyond MaxCount
GenIncr ==
  /\ gpc = "incr"
  /\ git.m_count <= MaxCount + 1
  /\ \E v \in GenVals :
       LET r == gen_preinc(git, produced, v)
       IN  /\ git' = r.it
           /\ produced' = r.log
  /\ gpc' = "test"
  /\ UNCHANGED <<gs, gyield, tvars, qvars, rvars, lvars, pvars, kvars>>

GenerativeNext ==
  \/ GenBegin
  \/ GenTest
  \/ GenDeref
  \/ GenIncr

GenerativeSpec == GenerativeInit /\ [][GenerativeNext]_vars

---------------------------------------------------------------------------
(* Calls of supl::to_string *)

IntItems == {IntVal(3), IntVal(5), IntVal(6), IntVal(9)}

StrItems == {StrVal(<<>>), StrVal(<<CharVal(97), CharVal(98)>>)}

\* the element values of the vectors: one set per element type
ItemTypes ==
  { IntItems,
    {BoolVal(TRUE), BoolVal(FALSE)},
    StrItems,
    {PairVal(IntVal(1), BoolVal(TRUE))},
    {TupleVal(<<>>), TupleVal(<<IntVal(3)>>)},
    {VecVal(<<>>), VecVal(<<IntVal(3), IntVal(5)>>)},
    {Opaque} }

\* the empty vector stands for an empty vector of a supported element type
Vectors ==
  UNION {{VecVal(s) : s \in SeqsUpTo(T, MaxItems)} : T \in ItemTypes}

\* the element values of the tuples and pairs
Members ==
  { IntVal(3), IntVal(0 - 12), BoolVal(TRUE), BoolVal(FALSE), CharVal(97),
    StrVal(<<CharVal(97), CharVal(98)>>), VecVal(<<IntVal(3), IntVal(5)>>),
    VecVal(<<>>), TupleVal(<<>>), TupleVal(<<IntVal(3), BoolVal(FALSE)>>),
    PairVal(IntVal(1), BoolVal(TRUE)), Opaque }

Renderable ==
  Members \cup Vectors
    \cup {TupleVal(s) : s \in SeqsUpTo(Members, MaxArity)}
    \cup {PairVal(a, b) : a \in Members, b \in Members}

RenderInit ==
  /\ sval \in Renderable
  /\ stext = NoText
  /\ TupleIdle
  /\ SequenceIdle
  /\ GenerativeIdle
  /\ TypeListIdle
  /\ AdapterIdle
  /\ AlgorithmIdle

Render ==
  /\ stext = NoText
  /\ stext' = to_string(sval)
  /\ UNCHANGED <<sval, tvars, qvars, gvars, lvars, pvars, kvars>>

RenderNext == Render

RenderSpec == RenderInit /\ [][RenderNext]_vars

---------------------------------------------------------------------------
(* Instantiations of the type-list metafunctions, one per translation unit *)

TypeListInit ==
  /\ tlist \in SeqsUpTo(Types, MaxTypes)
  /\ meta = NoMetaCall
  /\ mres = NoMeta
  /\ TupleIdle
  /\ SequenceIdle
  /\ GenerativeIdle
  /\ RenderIdle
  /\ AdapterIdle
  /\ AlgorithmIdle

\* the translation unit names c, which is r
Instantiate(c, r) ==
  /\ meta.op = "none"
  /\ meta' = c
  /\ mres' = r
  /\ UNCHANGED <<tlist, tvars, qvars, gvars, rvars, pvars, kvars>>

\* index constants, one past the longest list included
TypeIndices == 0..(MaxTypes + 1)

MetaAtIndex ==
  \E Idx \in TypeIndices :
    Instantiate(MetaCall("type_at_index", Idx, ""),
                type_at_index_t(Idx, tlist, 0))

MetaPushBack ==
  \E T \in Types :
    Instantiate(MetaCall("push_back", 0, T), MList(push_back(tlist, T)))

MetaPushFront ==
  \E T \in Types :
    Instantiate(MetaCall("push_front", 0, T), MList(push_front(tlist, T)))

MetaContains ==
  \E T \in Types :
    Instantiate(MetaCall("contains_type", 0, T), MBool(contains_type(T, tlist)))

MetaSize ==
  Instantiate(MetaCall("type_list_size", 0, ""), MSize(type_list_size(tlist)))

TypeListNext ==
  \/ MetaAtIndex
  \/ MetaPushBack
  \/ MetaPushFront
  \/ MetaContains
  \/ MetaSize

TypeListSpec == TypeListInit /\ [][TypeListNext]_vars

---------------------------------------------------------------------------
(* Operations on two iterators of one adapter.  ia is constructed live.   *)
(* ib starts as the end marker of a sequence of the same adapter and may  *)
(* become a copy of ia.  solo follows ia through the same operations in   *)
(* the run where ib is never advanced.                                     *)

\* ++it, whichever the adapter: the iterator afterwards, the state of the
\* producer outside of it, and whether the call threw
Advance(it, outside) ==
  IF fam = "sequence"
  THEN [it |-> seq_preinc(it), ext |-> outside, thrown |-> FALSE]
  ELSE LET g == invoke_gen(it.m_gen, outside)
           r == gen_preinc(it, <<>>, g.v)
       IN  IF r.thrown
           THEN [it |-> it, ext |-> outside, thrown |-> TRUE]
           ELSE [it |-> [r.it EXCEPT !.m_gen = g.m_gen], ext |-> g.ext,
                 thrown |-> FALSE]

\* the iterators have been advanced as often as the model follows them
Advanced(it) ==
  \/ ext >= 2 * MaxAdvance
  \/ fam = "generative" /\ it.m_count >= MaxAdvance

AdapterInit ==
  /\ \/ \E v \in 0 .. MaxVal, e \in 0 .. MaxVal, f \in Steps :
          /\ fam = "sequence"
          /\ ia = sequence_iterator(v, f)
          /\ ib = sequence_iterator(e, f)
          /\ ext = 0
     \/ \E kind \in {"owned", "shared"}, n \in 0 .. MaxCount :
          LET g == invoke_gen(Producer(kind, 0), 0)
          IN  /\ fam = "generative"
              /\ ia = [generative_iterator_func(<<>>, g.v).it
                         EXCEPT !.m_gen = g.m_gen]
              /\ ib = generative_iterator_sentinel(n)
              /\ ext = g.ext
  /\ solo = [it |-> ia, ext |-> ext]
  /\ thrown = FALSE
  /\ got = 0
  /\ TupleIdle
  /\ SequenceIdle
  /\ GenerativeIdle
  /\ RenderIdle
  /\ TypeListIdle
  /\ AlgorithmIdle

\* ib = ia: the defaulted copy
AdCopy ==
  /\ ~ thrown
  /\ ib' = ia
  /\ UNCHANGED <<fam, ia, ext, solo, thrown, got,
                 tvars, qvars, gvars, rvars, lvars, kvars>>

\* ++ia
AdIncA ==
  /\ ~ thrown
  /\ ~ Advanced(ia)
  /\ LET r == Advance(ia, ext)
         a == Advance(solo.it, solo.ext)
     IN  /\ ia' = r.it
         /\ ext' = r.ext
         /\ thrown' = r.thrown
         /\ solo' = [it |-> a.it, ext |-> a.ext]
  /\ UNCHANGED <<fam, ib, got, tvars, qvars, gvars, rvars, lvars, kvars>>

\* ib = ia++
AdPostInc ==
  /\ ~ thrown
  /\ ~ Advanced(ia)
  /\ LET r == Advance(ia, ext)
         a == Advance(solo.it, solo.ext)
     IN  /\ ia' = r.it
         /\ ib' = IF r.thrown THEN ib
                  ELSE IF fam = "sequence" THEN seq_postinc(ia).tmp
                  ELSE gen_postinc(ia, <<>>, r.it.m_val).tmp
         /\ ext' = r.ext
         /\ thrown' = r.thrown
         /\ solo' = [it |-> a.it, ext |-> a.ext]
  /\ UNCHANGED <<fam, got, tvars, qvars, gvars, rvars, lvars, kvars>>

\* ++ib
AdIncB ==
  /\ ~ thrown
  /\ ~ Advanced(ib)
  /\ LET r == Advance(ib, ext)
     IN  /\ ib' = r.it
         /\ ext' = r.ext
         /\ thrown' = r.thrown
  /\ UNCHANGED <<fam, ia, solo, got, tvars, qvars, gvars, rvars, lvars, kvars>>

\* *ia or *ib
AdDeref ==
  /\ ~ thrown
  /\ \E it \in {ia, ib} :
       got' = IF fam = "sequence" THEN seq_deref(it) ELSE gen_deref(it)
  /\ UNCHANGED <<fam, ia, ib, ext, solo, thrown,
                 tvars, qvars, gvars, rvars, lvars, kvars>>

AdapterNext ==
  \/ AdCopy
  \/ AdIncA
  \/ AdPostInc
  \/ AdIncB
  \/ AdDeref

AdapterSpec == AdapterInit /\ [][AdapterNext]_vars

---------------------------------------------------------------------------
(* Calls of last, clast and the for_each algorithms on the ranges r1, r2 *)

AlgoCall(op, n, cat) == [op |-> op, n |-> n, cat |-> cat]

AlgorithmInit ==
  /\ r1 \in SeqsUpTo(RangeVals, MaxRange)
  /\ r2 \in SeqsUpTo(RangeVals, MaxRange)
  /\ acall = NoAlgoCall
  /\ ares = Did(<<>>, FALSE, 0, 0)
  /\ TupleIdle
  /\ SequenceIdle
  /\ GenerativeIdle
  /\ RenderIdle
  /\ TypeListIdle
  /\ AdapterIdle

\* last(r1), r1 a container of either category
Last ==
  /\ \E cat \in Categories :
       /\ acall' = AlgoCall("last", 0, cat)
       /\ ares' = last(r1, cat)
  /\ UNCHANGED <<r1, r2, tvars, qvars, gvars, rvars, lvars, pvars>>

\* clast(r1)
CLast ==
  /\ \E cat \in Categories :
       /\ acall' = AlgoCall("clast", 0, cat)
       /\ ares' = clast(r1, cat)
  /\ UNCHANGED <<r1, r2, tvars, qvars, gvars, rvars, lvars, pvars>>

\* for_each_adjacent(r1.begin(), r1.end(), func)
ForEachAdjacent ==
  /\ acall' = AlgoCall("for_each_adjacent", 0, "none")
  /\ ares' \in for_each_adjacent(r1)
  /\ UNCHANGED <<r1, r2, tvars, qvars, gvars, rvars, lvars, pvars>>

\* for_each_adjacent_n(r1.begin(), r1.end(), n, func)
ForEachAdjacentN ==
  /\ \E n \in 0 .. MaxRange :
       /\ acall' = AlgoCall("for_each_adjacent_n", n, "none")
       /\ ares' \in for_each_adjacent_n(r1, n)
  /\ UNCHANGED <<r1, r2, tvars, qvars, gvars, rvars, lvars, pvars>>

\* for_each_both(r1.begin(), r1.end(), r2.begin(), r2.end(), func)
ForEachBoth ==
  /\ acall' = AlgoCall("for_each_both", 0, "none")
  /\ ares' = for_each_both(r1, r2)
  /\ UNCHANGED <<r1, r2, tvars, qvars, gvars, rvars, lvars, pvars>>

\* for_each_both_n(r1.begin(), r1.end(), r2.begin(), r2.end(), n, func)
ForEachBothN ==
  /\ \E n \in 0 .. MaxRange :
       /\ acall' = AlgoCall("for_each_both_n", n, "none")
       /\ ares' = for_each_both_n(r1, r2, n)
  /\ UNCHANGED <<r1, r2, tvars, qvars, gvars, rvars, lvars, pvars>>

AlgorithmNext ==
  \/ Last
  \/ CLast
  \/ ForEachAdjacent
  \/ ForEachAdjacentN
  \/ ForEachBoth
  \/ ForEachBothN

AlgorithmSpec == AlgorithmInit /\ [][AlgorithmNext]_vars

---------------------------------------------------------------------------
(* Claims about the tuple algorithms, checked under TupleSpec *)

\* the elements S[b..e) of a tuple, 0-based and half-open
Slice(t, b, e) == [i \in 1..(e - b) |-> t[b + i]]

\* C1: popping the end that was just pushed gives back the original tuple:
\* tuple_pop_back(tuple_push_back(S, v)) = S and
\* tuple_pop_front(tuple_push_front(S, v)) = S, for every S and v, S
\* possibly holding tuples.
C1_PushPopInverse ==
  /\ (call.op = "pop_back" /\ inner.op = "push_back") => res = RTuple(inner.in)
  /\ (call.op = "pop_front" /\ inner.op = "push_front") => res = RTuple(inner.in)

\* C2: tuple_split(S, i) at a valid index i returns (A, B) with A = S[0..i),
\* B = S[i..length), A followed by B equal to S, lengths adding up, and the
\* first element of B equal to S[i].
C2_SplitReconstructs ==
  (call.op = "split" /\ call.idx < Len(call.in)) =>
    /\ res.kind = "pair"
    /\ res.a = Slice(call.in, 0, call.idx)
    /\ res.b = Slice(call.in, call.idx, Len(call.in))
    /\ res.a \o res.b = call.in
    /\ Len(res.a) + Len(res.b) = Len(call.in)
    /\ Len(res.b) > 0 /\ res.b[1] = call.in[call.idx + 1]

\* C3: subtuple(S, b, e) on a valid half-open range returns a tuple of
\* length e - b whose k-th element is S[b + k], whichever of the three
\* overloads is called.
C3_SubtupleSlice ==
  (/\ call.op = "subtuple"
   /\ call.idx < Len(call.in)
   /\ call.idx2 <= Len(call.in)
   /\ call.idx <= call.idx2) =>
    /\ res.kind = "tuple"
    /\ Len(res.a) = call.idx2 - call.idx
    /\ \A k \in 0..(call.idx2 - call.idx - 1) :
         k < Len(res.a) /\ res.a[k + 1] = call.in[call.idx + k + 1]

\* C4: tuple_count_if(S, P) = size(S) - tuple_count_if(S, not P) and
\* tuple_any_of(S, P) = not tuple_none_of(S, P), for every S and P.
C4_CountComplement ==
  /\ call.op = "count_if" =>
       /\ res.kind = "size"
       /\ tuple_count_if(call.in, not_fn(call.pred)).kind = "size"
       /\ res.n = Len(call.in) - tuple_count_if(call.in, not_fn(call.pred)).n
  /\ call.op = "any_of" =>
       /\ res.kind = "bool"
       /\ res.f = ~ tuple_none_of(call.in, call.pred).f

---------------------------------------------------------------------------
(* Claims about the stepped sequence, checked under SequenceSpec *)

\* the values b, b+1, ..., e-1
Iota(b, e) == [i \in 1..(e - b) |-> b + i - 1]

IsPrefix(s, t) == Len(s) <= Len(t) /\ s = SubSeq(t, 1, Len(s))

\* C5: with the default step and b <= e the traversal of sequence(b, e)
\* yields b, b+1, ..., e-1 in order: never e, nothing when b = e.
C5_HalfOpenRange ==
  (sq.m_inc = "increment" /\ sq.m_begin <= sq.m_end) =>
    /\ IsPrefix(syield, Iota(sq.m_begin, sq.m_end))
    /\ spc = "done" => syield = Iota(sq.m_begin, sq.m_end)

C5_Witness ==
  /\ spc = "done"
  /\ sq = sequence(0, 5, "increment")
  /\ syield = <<0, 1, 2, 3, 4>>

---------------------------------------------------------------------------
(* Claims about the generator sequence, checked under GenerativeSpec *)

\* C6: the traversal of generative_sequence(n, f) yields exactly the first
\* n values f returned, in order, and ends after exactly n increments,
\* whatever f returns on its (n+1)-th call.
C6_YieldsFirstN ==
  /\ IsPrefix(gyield, produced)
  /\ Len(gyield) <= gs.m_max
  /\ gpc = "done" =>
       /\ gyield = SubSeq(produced, 1, gs.m_max)
       /\ git.m_count = gs.m_max

C6_Witness ==
  /\ gpc = "done"
  /\ gs.m_max = 3
  /\ gyield = <<10, 20, 30>>
  /\ Len(produced) = 4
  /\ produced[4] = 10

\* C7 as stated: during a complete traversal of generative_sequence(n, f)
\* the producer is invoked at most n times, zero times when n = 0.
C7_AtMostNCalls == Len(produced) <= gs.m_max

\* C7 amended: the producer is invoked exactly n + 1 times during a complete
\* traversal, once by begin() and once by each of the n increments, so once
\* when n = 0.
C7_ExactlyNPlusOneCalls ==
  /\ Len(produced) <= gs.m_max + 1
  /\ gpc \in {"test", "body", "incr", "done"} =>
       Len(produced) = git.m_count + 1
  /\ gpc = "done" => Len(produced) = gs.m_max + 1

C7_Witness ==
  /\ gpc = "done"
  /\ gs.m_max = 0
  /\ Len(produced) = 1

---------------------------------------------------------------------------
(* Claims about supl::to_string, checked under RenderSpec *)

\* the texts of ts joined with ", " between them
RECURSIVE Join(_)
Join(ts) ==
  IF Len(ts) = 0 THEN <<>>
  ELSE IF Len(ts) = 1 THEN ts[1]
  ELSE ts[1] \o <<",", " ">> \o Join(Tail(ts))

Renderings(elems) == [i \in 1..Len(elems) |-> to_string(elems[i]).text]

Rendered == stext # NoText

\* C8: a homogeneous iterable renders as "[ " + elements joined by ", " +
\* " ]", with no separator after the last element, and as "[ ]" when empty.
C8_IterableFormat ==
  (Rendered /\ sval.k = "vec" /\ all_supported(sval.t)) =>
    /\ stext.ok
    /\ stext.text = IF Len(sval.t) = 0 THEN <<"[", " ", "]">>
                    ELSE <<"[", " ">> \o Join(Renderings(sval.t)) \o <<" ", "]">>

C8_Witness ==
  /\ sval = VecVal(<<IntVal(3), IntVal(5), IntVal(6), IntVal(9)>>)
  /\ stext.ok
  /\ stext.text = <<"[", " ", "3", ",", " ", "5", ",", " ", "6", ",", " ",
                    "9", " ", "]">>

\* C9: a tuple of any arity n >= 0 renders as text that starts with "(" and
\* ends with ")", its n elements in order joined by ", " with no trailing
\* separator; a pair (a, b) renders as "( a, b )".
C9_TupleFormat ==
  /\ (Rendered /\ sval.k = "tup" /\ all_supported(sval.t)) =>
       /\ stext.ok
       /\ Len(stext.text) >= 2
       /\ Head(stext.text) = "("
       /\ stext.text[Len(stext.text)] = ")"
       /\ Len(sval.t) > 0 =>
            stext.text = <<"(", " ">> \o Join(Renderings(sval.t)) \o <<" ", ")">>
  /\ (Rendered /\ sval.k = "pair" /\ all_supported(sval.t)) =>
       /\ stext.ok
       /\ stext.text = <<"(", " ">> \o Join(Renderings(sval.t)) \o <<" ", ")">>

\* the branch named by the order printable, pair, tuple, iterable
FirstMatch(v) ==
  IF is_printable(v) THEN "printable"
  ELSE IF is_pair(v) THEN "pair"
  ELSE IF is_tuple(v) THEN "tuple"
  ELSE IF is_iterable(v) THEN "iterable"
  ELSE "none"

\* C10: to_string applies the one branch that matches first in the order
\* printable, pair, tuple, iterable; a printable value is rendered in its
\* native form even when it is iterable; a value with none of the four
\* capabilities is rejected and produces no text.
C10_FirstMatchDispatch ==
  Rendered =>
    /\ FirstMatch(sval) = "none" => (~ stext.ok /\ stext.text = <<>>)
    /\ stext.ok => stext.branch = FirstMatch(sval)
    /\ (FirstMatch(sval) # "none" /\ all_supported(sval.t)) => stext.ok
    /\ is_printable(sval) => (stext.ok /\ stext.text = native(sval))

C10_Witness ==
  /\ sval = StrVal(<<CharVal(97), CharVal(98)>>)
  /\ is_iterable(sval)
  /\ stext = RText(<<"a", "b">>, "printable")

---------------------------------------------------------------------------
(* Claims about reordering, insertion, the frame of the tuple algorithms,  *)
(* and the invocations of their callables, checked under TupleSpec         *)

\* C11: tuple_reorder(S, (i_1, ..., i_m)) with every index below the length
\* of S returns the tuple of length m whose j-th element is S[i_j], indices
\* repeated or left out at will, m possibly 0; an index at or beyond the
\* length is rejected at compile time.
C11_ReorderSelects ==
  call.op = "reorder" =>
    IF \A j \in 1..Len(call.idxs) : call.idxs[j] < Len(call.in)
    THEN /\ res.kind = "tuple"
         /\ Len(res.a) = Len(call.idxs)
         /\ \A j \in 1..Len(call.idxs) :
              j <= Len(res.a) /\ res.a[j] = call.in[call.idxs[j] + 1]
    ELSE res = Diagnostic

\* C12: tuple_insert(S, i, v_1, ..., v_k) with i <= length(S) returns
\* S[0..i) followed by v_1..v_k followed by S[i..length), of length
\* length(S) + k; i > length(S) is rejected at compile time.
C12_InsertSplices ==
  call.op = "insert" =>
    IF call.idx <= Len(call.in)
    THEN /\ res.kind = "tuple"
         /\ Len(res.a) = Len(call.in) + Len(call.vals)
         /\ res.a = Slice(call.in, 0, call.idx) \o call.vals
                      \o Slice(call.in, call.idx, Len(call.in))
    ELSE res = Diagnostic

\* C13: after any tuple algorithm has returned, the caller's tuple is the
\* tuple that was passed in, and it still is after an element of the
\* returned tuple has been assigned to.
C13_InputUnchanged ==
  /\ (call.op # "none" /\ inner.op = "none") => tup = call.in
  /\ inner.op # "none" => tup = inner.in

\* the returned tuple of a call on the caller's tuple has been changed
C13_Witness ==
  /\ call.op = "assign"
  /\ inner.op \in {"push_back", "subtuple", "transform", "insert", "reorder"}
  /\ res.a # call.in
  /\ \E i \in 1..Len(tup) : i <= Len(call.in) /\ tup[i] = call.in[i]
                              /\ tup[i] # res.a[i]

\* C14: on the empty tuple tuple_any_of is false, tuple_all_of true,
\* tuple_none_of true and tuple_count_if 0, none of them rejected.
C14_EmptyScansTotal ==
  Len(call.in) = 0 =>
    /\ call.op = "any_of" => res = RBool(FALSE)
    /\ call.op = "all_of" => res = RBool(TRUE)
    /\ call.op = "none_of" => res = RBool(TRUE)
    /\ call.op = "count_if" => res = RSize(0)

\* the number of elements a left-to-right scan of t inspects when it stops
\* at the first element on which pred returns v
Inspected(t, pred, v) ==
  IF \E i \in 1..Len(t) : invoke(pred, t[i]) = v
  THEN CHOOSE i \in 1..Len(t) :
         /\ invoke(pred, t[i]) = v
         /\ \A j \in 1..(i - 1) : invoke(pred, t[j]) # v
  ELSE Len(t)

\* C15: tuple_any_of is the OR and tuple_all_of the AND of the predicate
\* over the elements; the predicate is invoked on the elements in
\* increasing index order from 0 and on no element after the first one on
\* which it returns true (any_of) or false (all_of).
C15_ShortCircuit ==
  /\ call.op = "any_of" =>
       /\ res.f = (\E i \in 1..Len(call.in) : invoke(call.pred, call.in[i]))
       /\ res.calls = Iota(0, Inspected(call.in, call.pred, TRUE))
  /\ call.op = "all_of" =>
       /\ res.f = (\A i \in 1..Len(call.in) : invoke(call.pred, call.in[i]))
       /\ res.calls = Iota(0, Inspected(call.in, call.pred, FALSE))

\* a scan that stopped before the last element
C15_Witness ==
  /\ call.op = "any_of"
  /\ res.f
  /\ Len(call.in) = 2
  /\ res.calls = <<0>>

\* C16: tuple_transform(S, f) returns the tuple of length(S) whose i-th
\* element is f(S[i]) and for_each_in_tuple(S, f) returns nothing; both
\* invoke f exactly once per element, in index order.
C16_TransformMaps ==
  /\ call.op = "transform" =>
       /\ res.kind = "tuple"
       /\ res.a = [i \in 1..Len(call.in) |-> apply(call.func, call.in[i])]
       /\ res.calls = Iota(0, Len(call.in))
  /\ call.op = "for_each" =>
       /\ res.kind = "void"
       /\ res.calls = Iota(0, Len(call.in))

---------------------------------------------------------------------------
(* Claims about the comparison with the end marker, checked under          *)
(* SequenceSpec and GenerativeSpec                                         *)

\* C19: at every step of the traversal of a stepped sequence the iterator
\* equals the end marker iff its current value equals the end value,
\* whatever the step functions of the two, however many steps were taken
\* and whether or not the value has passed beyond the end value; the loop
\* goes on exactly when they differ.
C19_ExhaustedIffEndValue ==
  /\ spc # "start" =>
       \A f \in Steps, g \in Steps :
         LET it == [sit EXCEPT !.m_inc = f]
             end == [sequence_end(sq) EXCEPT !.m_inc = g]
         IN  /\ seq_eq(it, end) = (sit.m_val = sq.m_end)
             /\ seq_ne(it, end) = (sit.m_val # sq.m_end)
  /\ sequence_empty(sq) = (sq.m_begin = sq.m_end)
  /\ spc = "body" => sit.m_val # sq.m_end
  /\ spc = "done" => sit.m_val = sq.m_end

\* the value has stepped over the end value and the loop goes on
C19_Witness ==
  /\ spc = "body"
  /\ sq.m_begin < sq.m_end
  /\ sit.m_val > sq.m_end
  /\ ~ seq_eq(sit, sequence_end(sq))

\* C20: the end marker of a generator sequence is constructed, and a live
\* iterator compared with it through ==, != and <, without any invocation
\* of the producer; live == end holds iff the counter of the live iterator
\* equals the maximum of the end marker, whatever values were produced.
C20_EndMarkerByCount ==
  /\ [](gpc \notin {"idle", "start"} =>
          \A v \in GenVals \cup {0} :
            LET live == [git EXCEPT !.m_val = v]
                end == generative_end(gs)
            IN  /\ end = generative_iterator_from(git, gs.m_max)
                /\ end.m_sentinel = gs.m_max
                /\ gen_eq(live, end) = (git.m_count = gs.m_max)
                /\ gen_ne(live, end) = (git.m_count # gs.m_max)
                /\ gen_lt(live, end) = (git.m_count < gs.m_max))
  /\ [][gpc = "test" => produced' = produced]_vars

\* a live iterator that equals the end marker after a few productions
C20_Witness ==
  /\ gpc = "done"
  /\ git.m_count = gs.m_max
  /\ git.m_count > 1
  /\ Len(produced) = git.m_count + 1
  /\ gen_eq(git, generative_end(gs))
  /\ git.m_val # generative_end(gs).m_val

---------------------------------------------------------------------------
(* Claims about the type lists, checked under TypeListSpec *)

\* C17: type_at_index<i, L> names the i-th type of L, counting from 0, when
\* i is below the size of L, and is rejected at compile time for every
\* other i, every index on the empty list included.
C17_TypeAtIndex ==
  meta.op = "type_at_index" =>
    IF meta.idx < Len(tlist)
    THEN mres = MType(tlist[meta.idx + 1])
    ELSE mres = MDiagnostic

\* the first index beyond a list of several types
C17_Witness ==
  /\ meta.op = "type_at_index"
  /\ Len(tlist) >= 2
  /\ meta.idx = Len(tlist)
  /\ mres.kind = "diag"

\* the list R is the list L with the type T put in at position p, 0-based:
\* one type longer, T at p, the types of L in their order around it, and T
\* found in it
PutIn(R, L, T, p) ==
  /\ type_list_size(R) = type_list_size(L) + 1
  /\ type_at_index_t(p, R, 0) = MType(T)
  /\ \A i \in 0..(Len(L) - 1) :
       type_at_index_t(IF i < p THEN i ELSE i + 1, R, 0)
         = type_at_index_t(i, L, 0)
  /\ contains_type(T, R)

\* C18: push_back<L, T> is L followed by T and push_front<L, T> is T
\* followed by L: one type longer, T at index size(L) resp. 0, the types of
\* L in their order, T contained in the result; contains_type<T, L> holds
\* iff some member of L is the type T, never on the empty list.
C18_PushAndContains ==
  /\ meta.op = "push_back" =>
       /\ mres = MList(tlist \o <<meta.type>>)
       /\ PutIn(mres.list, tlist, meta.type, Len(tlist))
  /\ meta.op = "push_front" =>
       /\ mres = MList(<<meta.type>> \o tlist)
       /\ PutIn(mres.list, tlist, meta.type, 0)
  /\ meta.op = "contains_type" =>
       /\ mres = MBool(\E i \in 1..Len(tlist) : tlist[i] = meta.type)
       /\ Len(tlist) = 0 => ~ mres.f
  /\ meta.op = "type_list_size" => mres = MSize(Len(tlist))

\* a type put in front of a list of other types
C18_Witness ==
  /\ meta.op = "push_front"
  /\ Len(tlist) >= 2
  /\ ~ contains_type(meta.type, tlist)
  /\ mres.list[1] = meta.type

---------------------------------------------------------------------------
(* Claims about the bounds checks of subtuple, tuple_split and             *)
(* tuple_insert, checked under TupleSpec                                   *)

\* C27: subtuple rejects every index pair that is not a half-open range
\* inside the tuple, and its bounds checks let through only pairs with
\* begin <= end, so that the length end - begin it computes never wraps
\* around.
C27_SubtupleNoWrap ==
  call.op = "subtuple" =>
    /\ ~ (/\ call.idx < Len(call.in)
          /\ call.idx2 <= Len(call.in)
          /\ call.idx <= call.idx2) => res = Diagnostic
    /\ subtuple_asserts(call.in, call.idx, call.idx2) =>
         /\ call.idx <= call.idx2
         /\ size_sub(call.idx2, call.idx) = call.idx2 - call.idx

\* C28: tuple_split accepts an index iff it is below the length of the
\* tuple, so the length itself and every index on the empty tuple are
\* rejected at compile time, whereas tuple_insert accepts the length.
C28_SplitStrictInsertInclusive ==
  /\ call.op = "split" =>
       IF call.idx < Len(call.in) THEN res.kind = "pair" ELSE res = Diagnostic
  /\ (call.op = "insert" /\ call.idx = Len(call.in)) => res.kind = "tuple"

\* a split at the length of a tuple that has elements
C28_Witness ==
  /\ call.op = "split"
  /\ Len(call.in) >= 1
  /\ call.idx = Len(call.in)
  /\ res = Diagnostic

---------------------------------------------------------------------------
(* Claims about the termination of the traversal of a stepped sequence,    *)
(* checked under SequenceFairSpec                                          *)

\* the increments made so far: one after every value read
Increments == Len(syield)

\* the distance from b up to e on the value type
Distance(b, e) == (e - b + ValModulus) % ValModulus

\* the step function skips the end value: steps of 2 over an odd distance
JumpsOver == sq.m_inc = "plus2" /\ Distance(sq.m_begin, sq.m_end) % 2 = 1

\* C30: with the default step and start <= end the traversal is exhausted
\* after exactly end - start increments; with start > end, or with a step
\* function that jumps over the end value, it is never exhausted.
C30_NeverExhaustedPastEnd ==
  /\ (sq.m_inc = "increment" /\ sq.m_begin <= sq.m_end /\ spc = "done") =>
       Increments = sq.m_end - sq.m_begin
  /\ (sq.m_begin > sq.m_end \/ JumpsOver) => spc # "done"

\* C30, amended: the traversal is exhausted exactly when the stepped value
\* equals the end value, no value read before being the end value.  With
\* the default step it always is: after end - start increments when
\* start <= end, and after the value has wrapped around, 2^w - (start -
\* end) increments in all, when start > end.  With steps of 2 it is
\* exhausted after half the distance if that is even and never otherwise.
C30_ExhaustedWhenEndReached ==
  /\ [](/\ spc = "done" =>
             /\ sit.m_val = sq.m_end
             /\ \A i \in 1..Len(syield) : syield[i] # sq.m_end
        /\ sq.m_inc = "increment" =>
             /\ Increments <= Distance(sq.m_begin, sq.m_end)
             /\ spc = "done" =>
                  Increments = IF sq.m_begin <= sq.m_end
                               THEN sq.m_end - sq.m_begin
                               ELSE ValModulus - (sq.m_begin - sq.m_end)
        /\ (sq.m_inc = "plus2" /\ spc = "done") =>
             2 * Increments = Distance(sq.m_begin, sq.m_end)
        /\ JumpsOver => spc # "done")
  /\ (sq.m_inc = "increment" /\ spc = "start") ~> (spc = "done")

\* a traversal from a start above the end, exhausted after wrapping around
C30_Witness ==
  /\ spc = "done"
  /\ sq.m_inc = "increment"
  /\ sq.m_begin > sq.m_end
  /\ Increments = ValModulus - (sq.m_begin - sq.m_end)
  /\ \E i \in 1..Len(syield) : syield[i] = 0

---------------------------------------------------------------------------
(* Claims about copies of the iterators and about the end markers *)

\* C21: advancing a copy of an iterator changes neither the current value
\* of the original nor the values the original yields later: the original
\* is in the state it has in the run where the copy is never advanced
C21_CopiesIndependent ==
  fam # "idle" => /\ ia = solo.it
                  /\ Advance(ia, ext).it = Advance(solo.it, solo.ext).it

\* C22: no operation on the iterators of the adapters, the increment and
\* the dereference of a generator end marker included, raises a runtime
\* error
C22_NoRuntimeFailure == ~ thrown

\* C26: the equality of generator iterators is symmetric and reflexive,
\* and operator!= is the negation of operator==
C26_EqualityIsEquivalence ==
  fam = "generative" =>
    /\ gen_eq(ia, ib) = gen_eq(ib, ia)
    /\ gen_eq(ia, ia)
    /\ gen_eq(ib, ib)
    /\ gen_ne(ia, ib) = ~ gen_eq(ia, ib)
    /\ gen_ne(ib, ia) = ~ gen_eq(ib, ia)

---------------------------------------------------------------------------
(* Claims about last, clast and the for_each algorithms *)

Least(S) == CHOOSE x \in S : \A y \in S : x <= y

\* C23: last of a non-empty container, bidirectional or forward-only, is
\* the position of its final element, one step before end(); last of an
\* empty container is begin(), reached without a step; clast is the same
\* position
C23_LastIsFinal ==
  acall.op \in {"last", "clast"} =>
    /\ Len(r1) = 0 => ares.pos = 0 /\ ares.steps = 0
    /\ Len(r1) > 0 => ares.pos + 1 = Len(r1)
    /\ ares.pos = last(r1, acall.cat).pos
    /\ ~ ares.undefined

\* last has walked a forward-only container of two or more elements
C23_Witness ==
  /\ acall.op = "last"
  /\ acall.cat = "forward"
  /\ Len(r1) >= 2
  /\ ares.steps = Len(r1) - 1

\* C24: on a range of n elements for_each_adjacent makes n - 1 calls and
\* for_each_adjacent_n the first min(n_max, n - 1) of them, the k-th call
\* being func(e_k, e_k+1), the earlier element first
C24_AdjacentInOrder ==
  acall.op \in {"for_each_adjacent", "for_each_adjacent_n"}
  /\ Len(r1) > 0 =>
    /\ Len(ares.calls) =
         IF acall.op = "for_each_adjacent" THEN Len(r1) - 1
         ELSE Least({acall.n, Len(r1) - 1})
    /\ \A k \in 1 .. Len(ares.calls) :
         ares.calls[k].x = r1[k] /\ ares.calls[k].y = r1[k + 1]

\* C25: for_each_both makes min(a, b) calls and for_each_both_n
\* min(n, a, b), the k-th call being func(r1[k], r2[k]), and no element
\* past that point is dereferenced
C25_BothInStep ==
  acall.op \in {"for_each_both", "for_each_both_n"} =>
    /\ Len(ares.calls) =
         IF acall.op = "for_each_both" THEN Least({Len(r1), Len(r2)})
         ELSE Least({acall.n, Len(r1), Len(r2)})
    /\ \A k \in 1 .. Len(ares.calls) :
         /\ ares.calls[k].p = k - 1
         /\ ares.calls[k].q = k - 1
         /\ ares.calls[k].x = r1[k]
         /\ ares.calls[k].y = r2[k]
    /\ ~ ares.undefined

\* for_each_both_n has stopped at the count with elements left in both
\* ranges
C25_Witness ==
  /\ acall.op = "for_each_both_n"
  /\ acall.n >= 1
  /\ acall.n < Len(r1)
  /\ acall.n < Len(r2)
  /\ Len(ares.calls) = acall.n

\* C29: on a range of length 0 or 1 for_each_adjacent and
\* for_each_adjacent_n make no call and never step an iterator past end()
C29_ShortRangesNoCalls ==
  acall.op \in {"for_each_adjacent", "for_each_adjacent_n"}
  /\ Len(r1) <= 1 =>
    ares.calls = <<>> /\ ~ ares.undefined

====
